---- MODULE Spec2Model ----
(***************************************************************************)
(* Model of src/main.py: the meal aggregation API.                         *)
(*                                                                         *)
(*   get_meal  (GET /meals/{meal_name})  external lookup, local select,    *)
(*             balanced random merge under MAX_RESULTS, shuffle.           *)
(*   add_meal  (POST /add_meal/)         one INSERT ... ON CONFLICT (name) *)
(*             DO NOTHING.                                                 *)
(*   db_pool   asyncpg pool, max_size connections, shared by all handlers. *)
(*                                                                         *)
(* Handlers are asyncio coroutines: a handler runs without interruption    *)
(* from one await to the next, so every action below is the code between   *)
(* two awaits.  Text is a sequence of character codes, so that LOWER, LIKE,*)
(* split, strip and replace are computed and not assumed.                  *)
(***************************************************************************)
EXTENDS Integers, Sequences, FiniteSets, TLC

VARIABLES
    schema,          \* columns of table extra_meals (a set of column names)
    storeUp,         \* TRUE: every store call succeeds; FALSE: a call may raise
    table,           \* rows of extra_meals, in insertion order
    pc,              \* per handler: the await it is suspended at
    req,             \* per handler: the request it serves
    extOutcome,      \* per handler: what the outbound lookup did
    mealdb_meals,    \* per handler: local variable of get_meal
    supabase_meals,  \* per handler: local variable of get_meal
    err,             \* per handler: an exception raised inside the try block
    held,            \* per handler: TRUE while it holds a pooled connection
    response,        \* per handler: the HTTP outcome once pc = "done"
    bgWait,          \* anonymous handlers suspended in db_pool.acquire()
    bgHold           \* anonymous handlers holding a connection

vars == <<schema, storeUp, table, pc, req, extOutcome, mealdb_meals,
          supabase_meals, err, held, response, bgWait, bgHold>>

(***************************************************************************)
(* Bounds of the model.                                                    *)
(***************************************************************************)
MaxExt == 1          \* matches the external service returns to a lookup
MaxPre == 2          \* rows the table holds before the process starts, in Spec
MaxLen == 22         \* length of each source list, in SpecBalance
MaxSeed == 1         \* states of the random generator a request may see
NumBackground == 21  \* anonymous concurrent handlers, in SpecPool

Handlers == {1, 2}

(***************************************************************************)
(* Program constants.                                                      *)
(***************************************************************************)
MAX_RESULTS == 20
max_size == 20

Min(a, b) == IF a < b THEN a ELSE b

(***************************************************************************)
(* Text.  A string is a sequence of character codes; NULL is the SQL NULL  *)
(* (Python None), which is no string.                                      *)
(***************************************************************************)
NULL == <<-1>>

S_m == <<109>>                                   \* "m"
S_M1 == <<77, 49>>                               \* "M1"
S_m1 == <<109, 49>>                              \* "m1"
S_cat == <<99>>                                  \* "c"
S_area == <<97>>                                 \* "a"
S_instr == <<83, 49, 39, 44, 32, 39, 83, 50>>    \* "S1', 'S2"
S_ingr == <<91, 39, 101, 39, 44, 32, 39, 102, 39, 93>>  \* "['e', 'f']"
S_img == <<105>>                                 \* "i"
S_pre == <<112>>                                 \* "p"
S_percent == <<37>>                              \* "%"
S_step_sep == <<39, 44, 32, 39>>                 \* "', '"
S_brackets == <<91, 93>>                         \* "[]"
S_item_sep == <<44, 32>>                         \* ", "

\* LOWER(text)
Lower(s) == [i \in DOMAIN s |-> IF s[i] \in 65..90 THEN s[i] + 32 ELSE s[i]]

\* text LIKE pattern: % matches any run of characters, _ any one character
RECURSIVE LikeMatch(_, _)
LikeMatch(s, p) ==
    IF p = <<>> THEN s = <<>>
    ELSE IF Head(p) = 37
         THEN \E k \in 0..Len(s) : LikeMatch(SubSeq(s, k + 1, Len(s)), Tail(p))
         ELSE /\ s # <<>>
              /\ (Head(p) = 95 \/ Head(p) = Head(s))
              /\ LikeMatch(Tail(s), Tail(p))

\* first index at which sep occurs in s, 0 when it does not
IndexOf(s, sep) ==
    LET hits == {i \in 1..(Len(s) - Len(sep) + 1) :
                    SubSeq(s, i, i + Len(sep) - 1) = sep}
    IN  IF hits = {} THEN 0 ELSE CHOOSE i \in hits : \A j \in hits : i <= j

\* str.split(sep)
RECURSIVE Split(_, _)
Split(s, sep) ==
    LET i == IndexOf(s, sep)
    IN  IF i = 0 THEN <<s>>
        ELSE <<SubSeq(s, 1, i - 1)>> \o Split(SubSeq(s, i + Len(sep), Len(s)), sep)

\* str.strip(chars)
RECURSIVE Strip(_, _)
Strip(s, chars) ==
    LET cs == {chars[i] : i \in DOMAIN chars}
    IN  IF s = <<>> THEN s
        ELSE IF Head(s) \in cs THEN Strip(Tail(s), chars)
        ELSE IF s[Len(s)] \in cs THEN Strip(SubSeq(s, 1, Len(s) - 1), chars)
        ELSE s

\* str.replace(ch, "") for a one-character ch
Remove(s, ch) == SelectSeq(s, LAMBDA c : c # ch)

(***************************************************************************)
(* The store: table extra_meals.  The statements of main.py are the only   *)
(* description of the table the repository holds; the persisted schema is  *)
(* the one the specification lists.  A row is a function from the columns  *)
(* of the schema to values.                                                *)
(***************************************************************************)
CommonColumns == {"id", "name", "category", "area", "instructions", "ingredients"}

\* the persisted schema: id, name (unique), category, area, instructions,
\* ingredients, images
PersistedSchema == CommonColumns \cup {"images"}

\* the tables either statement of main.py can run against: the image
\* reference is a column "images" (read by get_meal), a column "image"
\* (written by add_meal), or both
Schemas == {CommonColumns \cup s : s \in (SUBSET {"image", "images"}) \ {{}}}

\* the columns the INSERT of add_meal names
InsertColumns == {"name", "category", "area", "instructions", "ingredients", "image"}

\* the columns the row formatting of get_meal reads
ReadColumns == {"id", "name", "category", "area", "instructions", "images", "ingredients"}

MkRow(sch, f) == [c \in sch |-> IF c \in DOMAIN f THEN f[c] ELSE NULL]

\* a row that exists before the process starts; rows written by other
\* clients of the table may hold NULL instructions or ingredients
PreRow(i, sch) ==
    MkRow(sch, [id |-> i, name |-> <<109, 48 + i>>, category |-> S_pre,
                area |-> S_pre,
                instructions |-> IF i = 2 THEN NULL ELSE S_instr,
                ingredients |-> IF i = 1 THEN NULL ELSE S_ingr,
                image |-> S_pre, images |-> S_pre])

PreTable(n, sch) == [i \in 1..n |-> PreRow(i, sch)]

\* INSERT INTO extra_meals (name, category, area, instructions, ingredients,
\* image) VALUES (...) ON CONFLICT (name) DO NOTHING
Insert(tbl, sch, args) ==
    IF ~(InsertColumns \subseteq sch)
    THEN [ok |-> FALSE, table |-> tbl]      \* column does not exist
    ELSE IF \E i \in DOMAIN tbl : tbl[i]["name"] = args["name"]
    THEN [ok |-> TRUE, table |-> tbl]       \* conflict: do nothing
    ELSE [ok |-> TRUE,
          table |-> Append(tbl, MkRow(sch, ("id" :> (Len(tbl) + 1)) @@ args))]

\* CASE WHEN LOWER(name) = LOWER($1) THEN 1 ELSE 2 END
MatchPriority(row, meal_name) ==
    IF Lower(row["name"]) = Lower(meal_name) THEN 1 ELSE 2

\* WHERE LOWER(name) LIKE LOWER($2), with $2 = f"%{meal_name}%"
Matches(row, meal_name) ==
    /\ row["name"] # NULL
    /\ LikeMatch(Lower(row["name"]), Lower(S_percent \o meal_name \o S_percent))

\* SELECT *, <match_priority> FROM extra_meals WHERE ... ORDER BY match_priority
Select(tbl, meal_name) ==
    LET hit == SelectSeq(tbl, LAMBDA row : Matches(row, meal_name))
        withPrio == [i \in DOMAIN hit |->
                        hit[i] @@ ("match_priority" :> MatchPriority(hit[i], meal_name))]
    IN  SelectSeq(withPrio, LAMBDA row : row["match_priority"] = 1)
        \o SelectSeq(withPrio, LAMBDA row : row["match_priority"] = 2)

\* Python truth value of a column value
Truthy(v) == v # NULL /\ v # <<>>

\* the dict literal of get_meal raises: KeyError for a column the row does
\* not have, AttributeError for None.split
FormatRaises(row) ==
    \/ ~(ReadColumns \subseteq DOMAIN row)
    \/ row["instructions"] = NULL

formatted_meal(row) ==
    [idMeal |-> row["id"],
     strMeal |-> row["name"],
     strCategory |-> row["category"],
     strArea |-> row["area"],
     strInstructions |-> Split(row["instructions"], S_step_sep),
     strMealThumb |-> row["images"],
     strIngredients |-> IF Truthy(row["ingredients"])
                        THEN Split(Remove(Strip(row["ingredients"], S_brackets), 39),
                                   S_item_sep)
                        ELSE <<>>,
     source |-> "Supabase DB"]

\* the for loop over db_meals: rows are appended until one raises
RECURSIVE FormatRows(_)
FormatRows(rows) ==
    IF rows = <<>> THEN [meals |-> <<>>, error |-> FALSE]
    ELSE IF FormatRaises(Head(rows)) THEN [meals |-> <<>>, error |-> TRUE]
    ELSE LET rest == FormatRows(Tail(rows))
         IN  [meals |-> <<formatted_meal(Head(rows))>> \o rest.meals,
              error |-> rest.error]

(***************************************************************************)
(* The external lookup.                                                    *)
(***************************************************************************)
FailureKinds == {"network_error", "bad_status", "malformed_body", "missing_key"}

\* what client.get / raise_for_status / json() / data["meals"] can do
ExtOutcomes ==
    {[kind |-> "ok", n |-> n] : n \in 0..MaxExt}
    \cup {[kind |-> k, n |-> 0] : k \in FailureKinds}

\* {**meal, "source": "MealDB"}
ExtMeal(i) == [idMeal |-> i, source |-> "MealDB"]

ExtList(n) == [i \in 1..n |-> ExtMeal(i)]

\* mutant: the exception of the try block is not caught
Mut_fetch_mealdb_data(o) ==
    [raised |-> o.kind # "ok",
     meals |-> IF o.kind = "ok" /\ o.n > 0 THEN ExtList(o.n) ELSE <<>>]

\* fetch_mealdb_data: every exception of the try block is caught and logged,
\* and the function falls through to "return []"
fetch_mealdb_data(o) ==
    [raised |-> FALSE,
     meals |-> IF o.kind = "ok" /\ o.n > 0 THEN ExtList(o.n) ELSE <<>>]

(***************************************************************************)
(* The result balancer of get_meal.  The random generator is an input: a   *)
(* request sees one of the generator states 0..MaxSeed, and every draw is  *)
(* a selection of distinct positions fixed by that state.                  *)
(***************************************************************************)
\* random.sample(population, k): k elements at distinct positions
Sample(population, k, r) ==
    [i \in 1..k |-> population[((i - 1 + r) % Len(population)) + 1]]

\* random.shuffle(x): a permutation of x
Shuffle(x, r) == IF x = <<>> THEN x ELSE Sample(x, Len(x), r)

\* mutant: the external share taken from the whole cap
MutMealdbProportion(E, total_meals_needed) == Min(Len(E), total_meals_needed)

\* mealdb_proportion = min(len(mealdb_meals), total_meals_needed // 2)
MealdbProportion(E, total_meals_needed) == Min(Len(E), total_meals_needed \div 2)

\* mutant: the local share not reduced by the external one
MutSupabaseProportion(mealdb_proportion, total_meals_needed) == total_meals_needed

\* mutant: the local share fixed at half the cap
MutSupabaseProportionHalf(mealdb_proportion, total_meals_needed) ==
    total_meals_needed \div 2

\* supabase_proportion = total_meals_needed - mealdb_proportion
SupabaseProportion(mealdb_proportion, total_meals_needed) ==
    total_meals_needed - mealdb_proportion

\* mutant: the not-found test never fires
MutNotFound(E, L) == FALSE

\* if not mealdb_meals and not supabase_meals: raise HTTPException(404)
NotFound(E, L) == E = <<>> /\ L = <<>>

\* final_meals, from "Balanced random selection" to random.shuffle
Balance(E, L, r) ==
    LET total_meals_needed == MAX_RESULTS
        mealdb_proportion == MealdbProportion(E, total_meals_needed)
        supabase_proportion == SupabaseProportion(mealdb_proportion, total_meals_needed)
        source_meals == IF E # <<>> THEN E ELSE L
        final_meals ==
            IF E # <<>> /\ L # <<>>
            THEN (IF Len(E) > mealdb_proportion
                  THEN Sample(E, mealdb_proportion, r) ELSE E)
                 \o (IF Len(L) > supabase_proportion
                     THEN Sample(L, supabase_proportion, r + 1) ELSE L)
            ELSE IF Len(source_meals) > 0
                 THEN Sample(source_meals,
                             Min(Len(source_meals), total_meals_needed), r)
                 ELSE <<>>
    IN  Shuffle(final_meals, r + 2)

\* the body get_meal returns
Response200(E, L, final_meals) ==
    [status |-> 200,
     total_available |-> Len(E) + Len(L),
     mealdb_count |-> Len(E),
     supabase_count |-> Len(L),
     returned_results |-> Len(final_meals),
     max_results |-> MAX_RESULTS,
     data |-> final_meals]

\* raise HTTPException(status_code=404, ...)
Response404 == [status |-> 404, detail |-> "Meal not found in MealDB or Supabase database."]

\* raise HTTPException(status_code=500, detail=f"Database error: ...")
Response500 == [status |-> 500, detail |-> "Database error"]

\* an exception no handler catches: the framework answers 500
ResponseUnhandled == [status |-> 500, detail |-> "Internal Server Error"]

\* return {"message": "Meal added successfully"}
ResponseAdded == [status |-> 200, message |-> "Meal added successfully"]

NoResponse == [status |-> 0]
NoRequest == [op |-> "none"]
NoOutcome == [kind |-> "none", n |-> 0]

(***************************************************************************)
(* The pool.                                                               *)
(***************************************************************************)
CheckedOut == bgHold + Cardinality({h \in Handlers : held[h]})

\* mutant: acquisition never waits
MutCanAcquire == TRUE

\* db_pool.acquire() hands out a connection while fewer than max_size are
\* checked out, and suspends the caller otherwise
CanAcquire == CheckedOut < max_size

\* what a store call can do: succeed, or raise when the store is not healthy
StoreAnswers == IF storeUp THEN {TRUE} ELSE {TRUE, FALSE}

\* mutant: the connection is put back on the normal path only
MutReleasedOnExit(h) == [held EXCEPT ![h] = err[h]]

\* leaving "async with db_pool.acquire() as conn": the connection goes back
\* to the pool whether the block ended normally or by an exception
ReleasedOnExit(h) == [held EXCEPT ![h] = FALSE]

(***************************************************************************)
(* Requests.                                                               *)
(***************************************************************************)
AddNames == {S_m, S_m1}
Queries == {S_m, S_M1}

\* the six caller-supplied strings of add_meal
AddArgs(name) ==
    [name |-> name, category |-> S_cat, area |-> S_area,
     instructions |-> S_instr, ingredients |-> S_ingr, image |-> S_img]

\* a request is served by a new coroutine; coroutines are numbered, and a
\* new one takes the lowest number not in use
Free(h) ==
    /\ pc[h] = "idle"
    /\ \A g \in Handlers : g < h => pc[g] # "idle"

(***************************************************************************)
(* get_meal                                                                *)
(***************************************************************************)
\* a GET /meals/{meal_name} request reaches a free handler
GetStart(h, meal_name) ==
    /\ Free(h)
    /\ req' = [req EXCEPT ![h] = [op |-> "get", meal_name |-> meal_name]]
    /\ pc' = [pc EXCEPT ![h] = "fetch"]
    /\ UNCHANGED <<schema, storeUp, table, extOutcome, mealdb_meals,
                   supabase_meals, err, held, response, bgWait, bgHold>>

\* mealdb_meals = await fetch_mealdb_data(meal_name)
FetchMealdb(h) ==
    /\ pc[h] = "fetch"
    /\ \E o \in ExtOutcomes :
          LET r == fetch_mealdb_data(o)
          IN  /\ extOutcome' = [extOutcome EXCEPT ![h] = o]
              /\ IF r.raised
                 THEN /\ response' = [response EXCEPT ![h] = ResponseUnhandled]
                      /\ pc' = [pc EXCEPT ![h] = "done"]
                      /\ UNCHANGED mealdb_meals
                 ELSE /\ mealdb_meals' = [mealdb_meals EXCEPT ![h] = r.meals]
                      /\ pc' = [pc EXCEPT ![h] = "acquire"]
                      /\ UNCHANGED response
    /\ UNCHANGED <<schema, storeUp, table, req, supabase_meals, err, held,
                   bgWait, bgHold>>

\* async with db_pool.acquire() as conn: entering the block
GetAcquire(h) ==
    /\ pc[h] = "acquire"
    /\ req[h].op = "get"
    /\ CanAcquire
    /\ \E ok \in StoreAnswers :
          IF ok
          THEN /\ held' = [held EXCEPT ![h] = TRUE]
               /\ pc' = [pc EXCEPT ![h] = "query"]
               /\ UNCHANGED <<response, err>>
          ELSE /\ response' = [response EXCEPT ![h] = Response500]
               /\ pc' = [pc EXCEPT ![h] = "done"]
               /\ err' = [err EXCEPT ![h] = TRUE]
               /\ UNCHANGED held
    /\ UNCHANGED <<schema, storeUp, table, req, extOutcome, mealdb_meals,
                   supabase_meals, bgWait, bgHold>>

\* db_meals = await conn.fetch(...), then the formatting loop
GetQuery(h) ==
    /\ pc[h] = "query"
    /\ \E ok \in StoreAnswers :
          IF ok
          THEN LET f == FormatRows(Select(table, req[h].meal_name))
               IN  /\ supabase_meals' = [supabase_meals EXCEPT ![h] = f.meals]
                   /\ err' = [err EXCEPT ![h] = f.error]
          ELSE /\ err' = [err EXCEPT ![h] = TRUE]
               /\ UNCHANGED supabase_meals
    /\ pc' = [pc EXCEPT ![h] = "release"]
    /\ UNCHANGED <<schema, storeUp, table, req, extOutcome, mealdb_meals,
                   held, response, bgWait, bgHold>>

\* mutant: the except clause logs and does not raise
MutGetOutcomes(h) ==
    IF NotFound(mealdb_meals[h], supabase_meals[h]) THEN {Response404}
    ELSE {Response200(mealdb_meals[h], supabase_meals[h],
                      Balance(mealdb_meals[h], supabase_meals[h], r)) :
             r \in 0..MaxSeed}

\* what get_meal answers once the async with block is left
GetOutcomes(h) ==
    IF err[h] THEN {Response500}
    ELSE IF NotFound(mealdb_meals[h], supabase_meals[h]) THEN {Response404}
    ELSE {Response200(mealdb_meals[h], supabase_meals[h],
                      Balance(mealdb_meals[h], supabase_meals[h], r)) :
             r \in 0..MaxSeed}

\* leaving the async with block, then the except clause, the 404 test, the
\* balancer and the return
GetRelease(h) ==
    /\ pc[h] = "release"
    /\ req[h].op = "get"
    /\ held' = ReleasedOnExit(h)
    /\ \E out \in GetOutcomes(h) : response' = [response EXCEPT ![h] = out]
    /\ pc' = [pc EXCEPT ![h] = "done"]
    /\ UNCHANGED <<schema, storeUp, table, req, extOutcome, mealdb_meals,
                   supabase_meals, err, bgWait, bgHold>>

(***************************************************************************)
(* add_meal                                                                *)
(***************************************************************************)
\* a POST /add_meal/ request reaches a free handler
AddStart(h, name) ==
    /\ Free(h)
    /\ req' = [req EXCEPT ![h] = [op |-> "add", args |-> AddArgs(name)]]
    /\ pc' = [pc EXCEPT ![h] = "acquire"]
    /\ UNCHANGED <<schema, storeUp, table, extOutcome, mealdb_meals,
                   supabase_meals, err, held, response, bgWait, bgHold>>

\* async with db_pool.acquire() as conn: entering the block
AddAcquire(h) ==
    /\ pc[h] = "acquire"
    /\ req[h].op = "add"
    /\ CanAcquire
    /\ \E ok \in StoreAnswers :
          IF ok
          THEN /\ held' = [held EXCEPT ![h] = TRUE]
               /\ pc' = [pc EXCEPT ![h] = "execute"]
               /\ UNCHANGED <<response, err>>
          ELSE /\ response' = [response EXCEPT ![h] = Response500]
               /\ pc' = [pc EXCEPT ![h] = "done"]
               /\ err' = [err EXCEPT ![h] = TRUE]
               /\ UNCHANGED held
    /\ UNCHANGED <<schema, storeUp, table, req, extOutcome, mealdb_meals,
                   supabase_meals, bgWait, bgHold>>

\* await conn.execute("INSERT ... ON CONFLICT (name) DO NOTHING", ...)
AddExecute(h) ==
    /\ pc[h] = "execute"
    /\ \E ok \in StoreAnswers :
          LET ins == Insert(table, schema, req[h].args)
          IN  IF ok /\ ins.ok
              THEN /\ table' = ins.table
                   /\ UNCHANGED err
              ELSE /\ err' = [err EXCEPT ![h] = TRUE]
                   /\ UNCHANGED table
    /\ pc' = [pc EXCEPT ![h] = "release"]
    /\ UNCHANGED <<schema, storeUp, req, extOutcome, mealdb_meals,
                   supabase_meals, held, response, bgWait, bgHold>>

\* leaving the async with block, then the return or the except clause
AddRelease(h) ==
    /\ pc[h] = "release"
    /\ req[h].op = "add"
    /\ held' = ReleasedOnExit(h)
    /\ response' = [response EXCEPT ![h] = IF err[h] THEN Response500
                                           ELSE ResponseAdded]
    /\ pc' = [pc EXCEPT ![h] = "done"]
    /\ UNCHANGED <<schema, storeUp, table, req, extOutcome, mealdb_meals,
                   supabase_meals, err, bgWait, bgHold>>

\* the response is sent and the coroutine ends: its locals are gone
Finish(h) ==
    /\ pc[h] = "done"
    /\ pc' = [pc EXCEPT ![h] = "idle"]
    /\ req' = [req EXCEPT ![h] = NoRequest]
    /\ extOutcome' = [extOutcome EXCEPT ![h] = NoOutcome]
    /\ mealdb_meals' = [mealdb_meals EXCEPT ![h] = <<>>]
    /\ supabase_meals' = [supabase_meals EXCEPT ![h] = <<>>]
    /\ err' = [err EXCEPT ![h] = FALSE]
    /\ response' = [response EXCEPT ![h] = NoResponse]
    /\ UNCHANGED <<schema, storeUp, table, held, bgWait, bgHold>>

(***************************************************************************)
(* Spec: two handlers, each serving get_meal and add_meal requests one     *)
(* after the other, against every table of up to MaxPre rows.              *)
(***************************************************************************)
HandlersIdle ==
    /\ pc = [h \in Handlers |-> "idle"]
    /\ req = [h \in Handlers |-> NoRequest]
    /\ extOutcome = [h \in Handlers |-> NoOutcome]
    /\ mealdb_meals = [h \in Handlers |-> <<>>]
    /\ supabase_meals = [h \in Handlers |-> <<>>]
    /\ err = [h \in Handlers |-> FALSE]
    /\ held = [h \in Handlers |-> FALSE]
    /\ response = [h \in Handlers |-> NoResponse]

Init ==
    /\ schema \in Schemas
    /\ storeUp \in BOOLEAN
    /\ \E n \in 0..MaxPre : table = PreTable(n, schema)
    /\ HandlersIdle
    /\ bgWait = 0
    /\ bgHold = 0

Next ==
    \E h \in Handlers :
        \/ \E meal_name \in Queries : GetStart(h, meal_name)
        \/ FetchMealdb(h)
        \/ GetAcquire(h)
        \/ GetQuery(h)
        \/ GetRelease(h)
        \/ \E name \in AddNames : AddStart(h, name)
        \/ AddAcquire(h)
        \/ AddExecute(h)
        \/ AddRelease(h)
        \/ Finish(h)

Spec == Init /\ [][Next]_vars

(***************************************************************************)
(* SpecBalance: the balancer of get_meal on source lists of every pair of  *)
(* lengths up to MaxLen.  The request has left the query: the table holds  *)
(* the rows the select returned, the handler is about to leave the async   *)
(* with block.                                                             *)
(***************************************************************************)
\* a table of n rows that all match "m" and all format
BalanceTable(n) == [i \in 1..n |-> ("id" :> i) @@ PreRow(i + 2, PersistedSchema)]

InitBalance ==
    /\ schema = PersistedSchema
    /\ storeUp = TRUE
    /\ \E n \in 0..MaxLen : table = BalanceTable(n)
    /\ pc = [h \in Handlers |-> IF h = 1 THEN "release" ELSE "idle"]
    /\ req = [h \in Handlers |-> IF h = 1 THEN [op |-> "get", meal_name |-> S_m]
                                 ELSE NoRequest]
    /\ \E n \in 0..MaxLen :
          /\ extOutcome = [h \in Handlers |-> IF h = 1 THEN [kind |-> "ok", n |-> n]
                                              ELSE NoOutcome]
          /\ mealdb_meals = [h \in Handlers |-> IF h = 1 THEN ExtList(n) ELSE <<>>]
    /\ supabase_meals = [h \in Handlers |->
                            IF h = 1 THEN FormatRows(Select(table, S_m)).meals
                            ELSE <<>>]
    /\ err = [h \in Handlers |-> FALSE]
    /\ held = [h \in Handlers |-> h = 1]
    /\ response = [h \in Handlers |-> NoResponse]
    /\ bgWait = 0
    /\ bgHold = 0

NextBalance ==
    \/ GetRelease(1)
    \/ Finish(1)

SpecBalance == InitBalance /\ [][NextBalance]_vars

(***************************************************************************)
(* SpecPool: one handler in full, among NumBackground other handlers of    *)
(* which only the use of the pool is kept: how many are suspended in       *)
(* db_pool.acquire() and how many hold a connection.                       *)
(***************************************************************************)
\* another request reaches its async with db_pool.acquire()
BgArrive ==
    /\ bgWait + bgHold < NumBackground
    /\ bgWait' = bgWait + 1
    /\ UNCHANGED <<schema, storeUp, table, pc, req, extOutcome, mealdb_meals,
                   supabase_meals, err, held, response, bgHold>>

\* it is handed a connection
BgAcquire ==
    /\ bgWait > 0
    /\ CanAcquire
    /\ bgWait' = bgWait - 1
    /\ bgHold' = bgHold + 1
    /\ UNCHANGED <<schema, storeUp, table, pc, req, extOutcome, mealdb_meals,
                   supabase_meals, err, held, response>>

\* it leaves the async with block
BgRelease ==
    /\ bgHold > 0
    /\ bgHold' = bgHold - 1
    /\ UNCHANGED <<schema, storeUp, table, pc, req, extOutcome, mealdb_meals,
                   supabase_meals, err, held, response, bgWait>>

InitPool ==
    /\ schema = PersistedSchema
    /\ storeUp \in BOOLEAN
    /\ table = PreTable(0, schema)
    /\ HandlersIdle
    /\ bgWait = 0
    /\ bgHold = 0

NextPool ==
    \/ BgArrive
    \/ BgAcquire
    \/ BgRelease
    \/ GetStart(1, S_m)
    \/ FetchMealdb(1)
    \/ GetAcquire(1)
    \/ GetQuery(1)
    \/ GetRelease(1)
    \/ AddStart(1, S_m1)
    \/ AddAcquire(1)
    \/ AddExecute(1)
    \/ AddRelease(1)
    \/ Finish(1)

\* the event loop runs every coroutine that is ready, store calls and the
\* outbound lookup return, and a connection put back is handed to the
\* waiters in the order they arrived: a waiter cannot be passed over for ever
FairPool ==
    /\ WF_vars(FetchMealdb(1) \/ GetQuery(1) \/ GetRelease(1)
               \/ AddExecute(1) \/ AddRelease(1))
    /\ SF_vars(GetAcquire(1) \/ AddAcquire(1))
    /\ WF_vars(BgRelease)

SpecPool == InitPool /\ [][NextPool]_vars /\ FairPool

(***************************************************************************)
(* Properties.                                                             *)
(***************************************************************************)
\* how many records of data carry the origin tag src
CountOf(data, src) == Cardinality({i \in DOMAIN data : data[i].source = src})

GetDone(h) == pc[h] = "done" /\ req[h].op = "get"
AddDone(h) == pc[h] = "done" /\ req[h].op = "add"
Ok200(h) == GetDone(h) /\ response[h].status = 200

\* C1: whenever get_meal answers 200, the length of data is at most
\* MAX_RESULTS and at most |E| + |L|, and returned_results is that length.
C1_ReturnedWithinCap ==
    \A h \in Handlers :
        Ok200(h) =>
            /\ Len(response[h].data) <= MAX_RESULTS
            /\ Len(response[h].data) <= Len(mealdb_meals[h]) + Len(supabase_meals[h])
            /\ response[h].returned_results = Len(response[h].data)

\* both sources together hold more than the cap, and the cap is what is returned
C1_Witness ==
    \E h \in Handlers :
        /\ Ok200(h)
        /\ Len(mealdb_meals[h]) + Len(supabase_meals[h]) > MAX_RESULTS
        /\ response[h].returned_results = MAX_RESULTS

\* C2: the number of records of each origin in a 200 answer is the reference
\* rule: both sources non-empty, min(|E|, MAX div 2) external records and
\* min(|L|, MAX - min(|E|, MAX div 2)) local ones; one source non-empty,
\* min(|side|, MAX) records of that origin and none of the other.
C2_CountsPerOrigin ==
    \A h \in Handlers :
        Ok200(h) =>
            LET e == Len(mealdb_meals[h])
                l == Len(supabase_meals[h])
                ext == CountOf(response[h].data, "MealDB")
                loc == CountOf(response[h].data, "Supabase DB")
                half == MAX_RESULTS \div 2
            IN  /\ ext + loc = Len(response[h].data)
                /\ (e > 0 /\ l > 0) =>
                      /\ ext = Min(e, half)
                      /\ loc = Min(l, MAX_RESULTS - Min(e, half))
                /\ (e > 0 /\ l = 0) => (ext = Min(e, MAX_RESULTS) /\ loc = 0)
                /\ (e = 0 /\ l > 0) => (loc = Min(l, MAX_RESULTS) /\ ext = 0)

\* both sources hold more than their share, and each is sampled
C2_Witness ==
    \E h \in Handlers :
        /\ Ok200(h)
        /\ Len(mealdb_meals[h]) > MAX_RESULTS \div 2
        /\ Len(supabase_meals[h]) > MAX_RESULTS \div 2
        /\ CountOf(response[h].data, "MealDB") = MAX_RESULTS \div 2
        /\ CountOf(response[h].data, "Supabase DB") = MAX_RESULTS \div 2

\* C3: when no store call raised and both lists are empty, get_meal ends with
\* the 404 outcome; a 200 answer never carries an empty data list.
C3_EmptyIsNotFound ==
    \A h \in Handlers :
        /\ (GetDone(h) /\ ~err[h] /\ mealdb_meals[h] = <<>> /\ supabase_meals[h] = <<>>)
              => response[h] = Response404
        /\ Ok200(h) => response[h].data # <<>>

\* the lookup answered with no match, the select returned no row
C3_Witness ==
    \E h \in Handlers :
        /\ GetDone(h)
        /\ extOutcome[h] = [kind |-> "ok", n |-> 0]
        /\ ~err[h]
        /\ supabase_meals[h] = <<>>
        /\ response[h].status = 404

\* C4 as stated: with both sources non-empty, a source that holds fewer
\* records than MAX div 2 is not made up for by the other source, which
\* contributes at most MAX div 2 records.
C4_NoBackfillEitherWay ==
    \A h \in Handlers :
        Ok200(h) =>
            LET e == Len(mealdb_meals[h])
                l == Len(supabase_meals[h])
                half == MAX_RESULTS \div 2
            IN  (e > 0 /\ l > 0) =>
                    /\ (e < half => CountOf(response[h].data, "Supabase DB") <= half)
                    /\ (l < half => CountOf(response[h].data, "MealDB") <= half)

\* C4 amended: a shortfall of the local source is not made up for (the
\* external source contributes at most MAX div 2 records), but a shortfall of
\* the external source is: with e < MAX div 2 external records the local
\* source contributes min(|L|, MAX - e) records.
C4_BackfillFromLocalOnly ==
    \A h \in Handlers :
        Ok200(h) =>
            LET e == Len(mealdb_meals[h])
                l == Len(supabase_meals[h])
                half == MAX_RESULTS \div 2
            IN  (e > 0 /\ l > 0) =>
                    /\ (l < half => CountOf(response[h].data, "MealDB") <= half)
                    /\ (e < half => CountOf(response[h].data, "Supabase DB")
                                       = Min(l, MAX_RESULTS - e))

\* the external source is short and the local source fills more than its half
C4_Witness ==
    \E h \in Handlers :
        /\ Ok200(h)
        /\ Len(mealdb_meals[h]) > 0
        /\ Len(mealdb_meals[h]) < MAX_RESULTS \div 2
        /\ CountOf(response[h].data, "Supabase DB") > MAX_RESULTS \div 2

\* C5: a failed external lookup never reaches the caller: the answer is the
\* one of a lookup with no match, 404 when the local list is empty and
\* otherwise 200 with local-origin records only (500 only for a store failure).
C5_ExternalFailureIsEmpty ==
    \A h \in Handlers :
        (GetDone(h) /\ (extOutcome[h].kind \in FailureKinds
                        \/ extOutcome[h] = [kind |-> "ok", n |-> 0])) =>
            /\ mealdb_meals[h] = <<>>
            /\ IF err[h] THEN response[h] = Response500
               ELSE IF supabase_meals[h] = <<>> THEN response[h] = Response404
               ELSE /\ response[h].status = 200
                    /\ response[h].mealdb_count = 0
                    /\ Len(response[h].data) = Min(Len(supabase_meals[h]), MAX_RESULTS)
                    /\ CountOf(response[h].data, "Supabase DB") = Len(response[h].data)

\* the lookup failed and the caller still got the local records
C5_Witness ==
    \E h \in Handlers :
        /\ GetDone(h)
        /\ extOutcome[h].kind \in FailureKinds
        /\ response[h].status = 200
        /\ response[h].data # <<>>

\* a row the formatting loop of get_meal cannot format
RowUnreadable(row) == "images" \notin DOMAIN row \/ row["instructions"] = NULL

\* a get_meal with an exception pending has left the query, and ends with 500
C6_Inv ==
    \A h \in Handlers :
        (req[h].op = "get" /\ err[h]) =>
            /\ pc[h] \in {"release", "done"}
            /\ pc[h] = "done" => response[h] = Response500

\* the steps of get_meal that can fail, and the step that follows a failure
C6_Step ==
    \A h \in Handlers :
        req[h].op = "get" =>
            /\ (pc[h] = "acquire" /\ pc'[h] = "done") => response'[h] = Response500
            /\ (pc[h] = "query" /\ pc'[h] # "query") =>
                  /\ pc'[h] = "release"
                  /\ (\E i \in DOMAIN Select(table, req[h].meal_name) :
                         RowUnreadable(Select(table, req[h].meal_name)[i]))
                        => err'[h]
            /\ (pc[h] = "release" /\ err[h] /\ pc'[h] # "release") =>
                  /\ pc'[h] = "done"
                  /\ response'[h] = Response500

\* C6: a failure of the acquisition, of the select or of the row formatting
\* ends get_meal with the 500 outcome and no data, whatever the external
\* source returned; the query is not run again and the rows formatted before
\* the failure are not returned.
C6_StoreFailureIs500 == []C6_Inv /\ [][C6_Step]_vars

\* the external source had matches and one row was formatted before the failure
C6_Witness ==
    \E h \in Handlers :
        /\ GetDone(h)
        /\ err[h]
        /\ mealdb_meals[h] # <<>>
        /\ supabase_meals[h] # <<>>
        /\ response[h] = Response500

\* C7: a handler holds a connection only between its acquisition and the end
\* of its async with block, so none on any exit path, and when no handler is
\* in flight no connection is checked out.
C7_ConnectionReleased ==
    /\ \A h \in Handlers : held[h] => pc[h] \in {"query", "execute", "release"}
    /\ (\A h \in Handlers : pc[h] \in {"idle", "done"}) => CheckedOut = 0

\* a handler left by the failure path, and nothing is checked out
C7_Witness ==
    /\ \E h \in Handlers : pc[h] = "done" /\ err[h] /\ response[h] = Response500
    /\ \E h \in Handlers : GetDone(h) /\ response[h].status = 404
    /\ CheckedOut = 0

\* the names of the rows of the table, one entry per row
HasRow(name) == \E i \in DOMAIN table : table[i]["name"] = name

UniqueNames ==
    \A i, j \in DOMAIN table : table[i]["name"] = table[j]["name"] => i = j

\* C8 as stated: the table holds at most one row per name, and on a healthy
\* store an add_meal call for a name the table holds answers with the
\* success acknowledgement.
C8_DuplicateIsSilent ==
    /\ UniqueNames
    /\ \A h \in Handlers :
          (AddDone(h) /\ storeUp /\ HasRow(req[h].args["name"]))
              => response[h] = ResponseAdded

\* a row add_meal wrote for these arguments
WrittenBy(row, args) ==
    /\ row["name"] = args["name"]
    /\ row["category"] = args["category"]
    /\ row["area"] = args["area"]

\* the two steps of the round trip: the answer of add_meal, and what the
\* select and the formatting loop of get_meal make of the row it wrote
C10_Step ==
    \A h \in Handlers :
        /\ (req[h].op = "add" /\ pc[h] = "release" /\ pc'[h] = "done"
            /\ storeUp /\ schema = PersistedSchema)
              => response'[h] = ResponseAdded
        /\ (req[h].op = "get" /\ pc[h] = "query" /\ pc'[h] = "release" /\ storeUp
            /\ \E i \in DOMAIN table : WrittenBy(table[i], AddArgs(req[h].meal_name)))
              => \E i \in DOMAIN supabase_meals'[h] :
                    LET m == supabase_meals'[h][i]
                        a == AddArgs(req[h].meal_name)
                    IN  /\ m.source = "Supabase DB"
                        /\ m.strMeal = a["name"]
                        /\ m.strCategory = a["category"]
                        /\ m.strArea = a["area"]
                        /\ m.strMealThumb = a["image"]

\* C10 as stated: on a healthy store with the persisted schema, add_meal
\* answers with the success acknowledgement; and on a healthy store a
\* get_meal whose select runs on a table holding the row add_meal wrote for
\* its name returns a local-origin record whose name, category, area and
\* image reference are the values add_meal was given.
C10_RoundTrip == [][C10_Step]_vars

\* C10, second half alone: the image reference get_meal reads back of a row
\* add_meal wrote is the one add_meal was given.
C10_ReadBack ==
    [][\A h \in Handlers :
        (req[h].op = "get" /\ pc[h] = "query" /\ pc'[h] = "release" /\ storeUp
         /\ \E i \in DOMAIN table : WrittenBy(table[i], AddArgs(req[h].meal_name)))
           => \E i \in DOMAIN supabase_meals'[h] :
                 supabase_meals'[h][i].strMealThumb = S_img]_vars

\* a step taken while the pool is exhausted leaves a handler that is in the
\* acquisition where it is
C9_Exhausted ==
    \A h \in Handlers :
        (pc[h] = "acquire" /\ CheckedOut >= max_size /\ CheckedOut' >= max_size)
            => (pc'[h] = "acquire" /\ response'[h] = response[h])

\* C9: never more than max_size connections checked out; a handler that
\* finds the pool exhausted stays suspended in the acquisition and gets no
\* error; under fair scheduling a handler suspended in the acquisition on a
\* healthy store acquires a connection, and a handler holding one completes.
C9_PoolBounded ==
    /\ [](CheckedOut <= max_size)
    /\ [][C9_Exhausted]_vars
    /\ (pc[1] = "acquire" /\ storeUp) ~> held[1]
    /\ (pc[1] = "acquire" \/ held[1]) ~> (pc[1] = "done" /\ ~held[1])

\* the handler is suspended because all max_size connections are checked out
C9_Witness ==
    /\ pc[1] = "acquire"
    /\ CheckedOut = max_size
    /\ bgWait > 0

====
